---- MODULE Spec2Model ----
(***************************************************************************)
(* PromptPilot: the record store (tables, row-level-security policies and  *)
(* foreign-key cascades of the migration) and the pages that use it        *)
(* (Analytics, Prompts, Dashboard, Run).                                   *)
(*                                                                         *)
(* Conventions.                                                            *)
(*  - A table is a set of rows (records); a primary key is a counter that  *)
(*    never hands out the same value twice (gen_random_uuid()).            *)
(*  - NULL is the SQL NULL of an integer or reference column.              *)
(*  - Money: cost_usd of a row is in micro-dollars (DECIMAL(10,6)); a cost *)
(*    computed by the client is in units of 1e-8 dollar, so that           *)
(*    (tokens / 1000) * unit cost is an exact integer.                     *)
(*  - last, note and audit describe the step that led to the state: the    *)
(*    handler branch taken, the toast it showed, and the rows the store    *)
(*    touched for which principal.                                         *)
(***************************************************************************)
EXTENDS Integers, FiniteSets, Sequences, TLC

\* ---------------------------------------------------------------- bounds
MaxProjects == 1
MaxPrompts == 1
MaxRuns == 2
MaxLoads == 1      \* loader calls in flight per captured user
MaxInv == 2        \* handleRun calls in flight
MaxRows == 4       \* rows of the runs table that loadAnalytics fetches
MaxDashRows == 6   \* rows of the runs table when the Dashboard loads

\* ------------------------------------------------------------ value sets
Users == {"A", "B"}
NoUser == "none"
Principals == Users \cup {NoUser}
NULL == -1
NoSelection == 0
NoToast == "none"
NoName == "NULL"     \* the SQL NULL of profiles.full_name

ProjectIds == 1..MaxProjects
PromptIds == 1..MaxPrompts
RunIds == 1..MaxRuns

Pages == {"dashboard", "prompts", "run", "analytics"}

VARIABLES
  projects, prompts, runs,            \* the tables public.projects/prompts/runs
  auth_users, profiles,               \* the tables auth.users and public.profiles
  nextProject, nextPrompt, nextRun,   \* gen_random_uuid() for each table
  last, note, audit,                  \* the step taken, its toast, its row effects
  user,                               \* useAuth().user, also the session's auth.uid()
  page,                               \* the page component that is mounted
  loads,                              \* loader calls of the mounted page awaiting their query
  analytics_stats, analytics_loading, \* Analytics: stats, loading
  prompts_list, prompts_loading,      \* Prompts: prompts, loading
  dashboard_stats, dashboard_loading, \* Dashboard: stats, loading
  run_prompts, selectedPrompt, selectedModel, running, result,  \* Run
  inv                                 \* handleRun calls sleeping in their delay

authVars == <<auth_users, profiles>>
storeVars == <<projects, prompts, runs, nextProject, nextPrompt, nextRun, authVars>>
outVars == <<last, note, audit>>
analyticsVars == <<analytics_stats, analytics_loading>>
promptsVars == <<prompts_list, prompts_loading>>
dashVars == <<dashboard_stats, dashboard_loading>>
runVars == <<run_prompts, selectedPrompt, selectedModel, running, result>>
uiVars == <<user, page, loads, analyticsVars, promptsVars, dashVars, runVars, inv>>
vars == <<storeVars, outVars, uiVars>>

Ids(rows) == {r.id : r \in rows}

\* one audited effect of a store operation on one row
Effect(op, table, row, uid) ==
  [op |-> op, table |-> table, id |-> row.id, owner |-> row.user_id, actor |-> uid]

Effects(op, table, rows, uid) == {Effect(op, table, r, uid) : r \in rows}

Out(l, n) == last' = l /\ note' = n

\* ------------------------------------------------- row-level security
\* USING (auth.uid() = user_id) / WITH CHECK (auth.uid() = user_id)
OwnsRow(uid, row) == uid # NoUser /\ uid = row.user_id

\* policies of a table: runs has SELECT and INSERT only
HasPolicy(table, op) ==
  IF table = "runs" THEN op \in {"select", "insert"}
  ELSE op \in {"select", "insert", "update", "delete"}

\* rows of a table statement that the policy lets the principal see/touch
Visible(table, op, uid, rows) ==
  IF HasPolicy(table, op) THEN {r \in rows : OwnsRow(uid, r)} ELSE {}

\* ------------------------------------------------- foreign keys
\* REFERENCES public.projects(id): checked by the store, not subject to RLS
ProjectRefOK(pid) == pid = NULL \/ pid \in Ids(projects)
PromptRefOK(pid) == pid = NULL \/ pid \in Ids(prompts)

\* ON DELETE CASCADE of prompts.project_id
CascadePrompts(ps, deletedProjects) ==
  {p \in ps : p.project_id \in Ids(deletedProjects)}

\* runs.prompt_id without ON DELETE CASCADE
CascadeRuns_None(rs, deletedPrompts) == {}

\* a cascade that is not restricted to the referencing rows
CascadeRuns_AllRuns(rs, deletedPrompts) == rs

\* ON DELETE CASCADE of runs.prompt_id
CascadeRuns(rs, deletedPrompts) ==
  {r \in rs : r.prompt_id \in Ids(deletedPrompts)}

\* ------------------------------------------------- rows
ProjectRow(id, owner) == [id |-> id, user_id |-> owner]

PromptRow(id, owner, project) ==
  [id |-> id, user_id |-> owner, project_id |-> project]

RunRow(id, prompt, model, tokens, latency, cost, status, owner) ==
  [id |-> id, prompt_id |-> prompt, model |-> model, tokens_used |-> tokens,
   latency_ms |-> latency, cost_usd |-> cost, status |-> status,
   user_id |-> owner]

\* a profiles row: its key is the user's id
ProfileRow(id, name) == [id |-> id, full_name |-> name]

\* the users A and B signed up: their auth.users rows and the profiles that
\* the trigger on_auth_user_created made
SignedUp ==
  /\ auth_users = Users
  /\ profiles = {ProfileRow(u, NoName) : u \in Users}

\* a runs row inserted with only the NOT NULL columns: the column defaults
DefaultRunRow(id, prompt, owner) ==
  RunRow(id, prompt, "gpt-4", NULL, NULL, NULL, "pending", owner)

\* ------------------------------------------------- store statements
\* Each statement is executed for the principal uid = auth.uid() of the
\* request; it sets the tables, the key counters and audit.
DeletedPrompts(uid, id) ==
  Visible("prompts", "delete", uid, {p \in prompts : p.id = id})

DeletedProjects(uid, id) ==
  Visible("projects", "delete", uid, {p \in projects : p.id = id})

\* INSERT: the policy's WITH CHECK (auth.uid() = user_id)
InsertAllowed(table, uid, row) ==
  HasPolicy(table, "insert") /\ OwnsRow(uid, row)

InsertProjectOK(uid, row) == InsertAllowed("projects", uid, row)

InsertPromptOK(uid, row) ==
  InsertAllowed("prompts", uid, row) /\ ProjectRefOK(row.project_id)

InsertRunOK(uid, row) ==
  InsertAllowed("runs", uid, row) /\ PromptRefOK(row.prompt_id)

NoStatement == UNCHANGED storeVars /\ audit' = {}

InsertProject(uid, row) ==
  /\ projects' = projects \cup {row}
  /\ nextProject' = nextProject + 1
  /\ audit' = {Effect("insert", "projects", row, uid)}
  /\ UNCHANGED <<prompts, runs, nextPrompt, nextRun, authVars>>

InsertPrompt(uid, row) ==
  /\ prompts' = prompts \cup {row}
  /\ nextPrompt' = nextPrompt + 1
  /\ audit' = {Effect("insert", "prompts", row, uid)}
  /\ UNCHANGED <<projects, runs, nextProject, nextRun, authVars>>

InsertRun(uid, row) ==
  /\ runs' = runs \cup {row}
  /\ nextRun' = nextRun + 1
  /\ audit' = {Effect("insert", "runs", row, uid)}
  /\ UNCHANGED <<projects, prompts, nextProject, nextPrompt, authVars>>

\* DELETE FROM projects WHERE id = ..., with both cascades
DeleteProject(uid, id) ==
  LET dj == DeletedProjects(uid, id)
      dp == CascadePrompts(prompts, dj)
      dr == CascadeRuns(runs, dp)
  IN /\ projects' = projects \ dj
     /\ prompts' = prompts \ dp
     /\ runs' = runs \ dr
     /\ audit' = Effects("delete", "projects", dj, uid) \cup
                 Effects("delete", "prompts", dp, uid) \cup
                 Effects("delete", "runs", dr, uid)
     /\ UNCHANGED <<nextProject, nextPrompt, nextRun, authVars>>

\* DELETE FROM prompts WHERE id = ..., with the cascade to runs
DeletePrompt(uid, id) ==
  LET dp == DeletedPrompts(uid, id)
      dr == CascadeRuns(runs, dp)
  IN /\ prompts' = prompts \ dp
     /\ runs' = runs \ dr
     /\ audit' = Effects("delete", "prompts", dp, uid) \cup
                 Effects("delete", "runs", dr, uid)
     /\ UNCHANGED <<projects, nextProject, nextPrompt, nextRun, authVars>>

\* SELECT * FROM <table> WHERE user_id = owner
Select(table, rows, uid, owner) ==
  {r \in Visible(table, "select", uid, rows) : r.user_id = owner}

Min(a, b) == IF a <= b THEN a ELSE b

\* ------------------------------------------------- Run: simulated execution
ModelNames == {"gpt-4", "gpt-3.5-turbo", "claude-3-opus", "claude-3-sonnet", "gemini-pro"}

\* MODELS[].cost, dollars per 1K tokens, in units of 1e-5 dollar
ModelCostE5 ==
  [m \in ModelNames |->
     CASE m = "gpt-4" -> 3000
       [] m = "gpt-3.5-turbo" -> 200
       [] m = "claude-3-opus" -> 1500
       [] m = "claude-3-sonnet" -> 300
       [] m = "gemini-pro" -> 25]

\* MODELS.find(m => m.value === selectedModel)?.cost || 0
ModelCost(m) == IF m \in ModelNames THEN ModelCostE5[m] ELSE 0

TokenBase == 100
TokenSpan == 400
DelayBase == 2000
DelaySpan == 2000

\* Math.floor(100 + Math.random() * 400), for kt = floor(Math.random() * 400)
Tokens(kt) == TokenBase + kt

\* setTimeout(resolve, 2000 + Math.random() * 2000), whole milliseconds,
\* for kd = floor(Math.random() * 2000)
DelayMs(kd) == DelayBase + kd

\* Date.now() - startTime when the timer fires lag ms after its delay
Latency(delay, lag) == delay + lag

\* tokens * modelCost, without the division by 1000
CostE8_PerToken(tokens, model) == tokens * ModelCost(model) * 1000

\* (tokens / 1000) * modelCost, in units of 1e-8 dollar
CostE8(tokens, model) == tokens * ModelCost(model)

\* a client cost as the column cost_usd DECIMAL(10, 6) keeps it: micro-dollars
Decimal6(costE8) == (costE8 + 50) \div 100

\* the draws of Math.random() and the timer lateness that the pages explore
\* <<floor(Math.random() * 400), floor(Math.random() * 2000), lag>> of one
\* execution: the draws the page specifications explore
UiDraws == {<<0, 0, 0>>}

\* the draws that the specification of the simulated execution explores:
\* the least draws, 400 tokens, and the greatest draws with a timer that
\* fires one millisecond late
SimDraws == {<<0, 0, 0>>, <<300, 1000, 0>>, <<399, 1999, 1>>}
ModelChoices == {"gpt-4", "gemini-pro"}

\* ------------------------------------------------- component state
ZeroStats ==
  [totalRuns |-> 0, totalCost |-> 0, avgLatency |-> 0, successRate |-> 0,
   modelBreakdown |-> {}]

ZeroDashboard == [totalPrompts |-> 0, totalRuns |-> 0, recentRuns |-> {}]

NoResult == [latency |-> NULL, tokens |-> NULL, cost |-> NULL]

NoLoads == [u \in Users |-> 0]

IdleInv ==
  [pc |-> "idle", user |-> NoUser, prompt |-> NoSelection, model |-> "gpt-4",
   att |-> FALSE]

\* a loader called for user u: "if (!user) return", else the query is sent
StartLoad(bag, u) ==
  IF u = NoUser THEN bag ELSE [bag EXCEPT ![u] = Min(@ + 1, MaxLoads)]

EndLoad(bag, u) == [bag EXCEPT ![u] = @ - 1]

\* useState(...) of the four pages
ResetPages ==
  /\ analytics_stats' = ZeroStats /\ analytics_loading' = TRUE
  /\ prompts_list' = {} /\ prompts_loading' = TRUE
  /\ dashboard_stats' = ZeroDashboard /\ dashboard_loading' = TRUE
  /\ run_prompts' = {} /\ selectedPrompt' = NoSelection
  /\ selectedModel' = "gpt-4" /\ running' = FALSE /\ result' = NoResult

Init ==
  /\ projects = {} /\ prompts = {} /\ runs = {}
  /\ nextProject = 1 /\ nextPrompt = 1 /\ nextRun = 1
  /\ SignedUp
  /\ last = "init" /\ note = NoToast /\ audit = {}
  /\ user = NoUser /\ page = "dashboard" /\ loads = NoLoads
  /\ analytics_stats = ZeroStats /\ analytics_loading = TRUE
  /\ prompts_list = {} /\ prompts_loading = TRUE
  /\ dashboard_stats = ZeroDashboard /\ dashboard_loading = TRUE
  /\ run_prompts = {} /\ selectedPrompt = NoSelection
  /\ selectedModel = "gpt-4" /\ running = FALSE /\ result = NoResult
  /\ inv = [i \in 1..MaxInv |-> IdleInv]

\* ------------------------------------------------- session and routing
\* the auth context hands the pages another user: useEffect(..., [user])
\* of the mounted page calls its loader
AuthChange(u) ==
  /\ u # user
  /\ user' = u
  /\ loads' = StartLoad(loads, u)
  /\ NoStatement
  /\ Out("auth.change", NoToast)
  /\ UNCHANGED <<page, analyticsVars, promptsVars, dashVars, runVars, inv>>

\* a sidebar link: the page unmounts, the target mounts with fresh state and
\* its effect calls its loader; a handleRun call in its delay keeps running
\* but its setState calls no longer reach a mounted component
Navigate(p) ==
  /\ p # page
  /\ page' = p
  /\ ResetPages
  /\ loads' = StartLoad(NoLoads, user)
  /\ inv' = [i \in 1..MaxInv |-> [inv[i] EXCEPT !.att = FALSE]]
  /\ NoStatement
  /\ Out("navigate", NoToast)
  /\ UNCHANGED user

\* ------------------------------------------------- Run page
\* Run.loadPrompts resumes with the answer to its query
RunLoadPrompts(u) ==
  /\ page = "run" /\ loads[u] > 0
  /\ loads' = EndLoad(loads, u)
  /\ UNCHANGED storeVars
  /\ \E ok \in BOOLEAN :
       IF ok
       THEN LET data == Select("prompts", prompts, u, u) IN
            /\ run_prompts' = data
            /\ audit' = Effects("select", "prompts", data, u)
            /\ Out("Run.loadPrompts.ok", NoToast)
       ELSE /\ UNCHANGED run_prompts
            /\ audit' = {}
            /\ Out("Run.loadPrompts.error", NoToast)
  /\ UNCHANGED <<user, page, analyticsVars, promptsVars, dashVars,
                 selectedPrompt, selectedModel, running, result, inv>>

\* <Select value={selectedPrompt} onValueChange={setSelectedPrompt}>
SelectPrompt(id) ==
  /\ page = "run" /\ id \in Ids(run_prompts) /\ id # selectedPrompt
  /\ selectedPrompt' = id
  /\ NoStatement
  /\ Out("Run.selectPrompt", NoToast)
  /\ UNCHANGED <<user, page, loads, analyticsVars, promptsVars, dashVars,
                 run_prompts, selectedModel, running, result, inv>>

SelectModel(m) ==
  /\ page = "run" /\ m # selectedModel
  /\ selectedModel' = m
  /\ NoStatement
  /\ Out("Run.selectModel", NoToast)
  /\ UNCHANGED <<user, page, loads, analyticsVars, promptsVars, dashVars,
                 run_prompts, selectedPrompt, running, result, inv>>

\* disabled={!selectedPrompt}
ButtonDisabled_NoRunning == selectedPrompt = NoSelection

\* <Button onClick={handleRun} disabled={!selectedPrompt || running}>
ButtonDisabled == selectedPrompt = NoSelection \/ running

\* if (!user)
RunGuard_UserOnly == user = NoUser

\* if (!selectedPrompt || !user)
RunGuard == selectedPrompt = NoSelection \/ user = NoUser

\* the selection used as the prompt, without looking it up
FindPrompt_NoLookup == {PromptRow(selectedPrompt, user, NULL)}

\* prompts.find(p => p.id === selectedPrompt)
FindPrompt == {p \in run_prompts : p.id = selectedPrompt}

FreeSlots == {i \in 1..MaxInv : inv[i].pc = "idle"}

\* handleRun up to its first await
HandleRun ==
  /\ page = "run"
  /\ NoStatement
  /\ UNCHANGED <<user, page, loads, analyticsVars, promptsVars, dashVars,
                 run_prompts, selectedPrompt, selectedModel>>
  /\ IF RunGuard
     THEN /\ Out("handleRun.guard", "Please select a prompt")
          /\ UNCHANGED <<running, result, inv>>
     ELSE IF FindPrompt = {}
     THEN \* throw new Error('Prompt not found'): catch, finally
          /\ running' = FALSE
          /\ result' = NoResult
          /\ Out("handleRun.notfound", "Failed to run prompt")
          /\ UNCHANGED inv
     ELSE /\ FreeSlots # {}
          /\ LET i == CHOOSE k \in FreeSlots : \A j \in FreeSlots : k <= j
                 prompt == CHOOSE p \in FindPrompt : TRUE
             IN inv' = [inv EXCEPT ![i] =
                          [pc |-> "delay", user |-> user, prompt |-> prompt.id,
                           model |-> selectedModel, att |-> TRUE]]
          /\ running' = TRUE
          /\ result' = NoResult
          /\ Out("handleRun.start", NoToast)

\* a click on the Run button: a disabled button has no click
ClickRun ==
  /\ page = "run"
  /\ IF ButtonDisabled
     THEN /\ NoStatement
          /\ Out("Run.click.disabled", NoToast)
          /\ UNCHANGED uiVars
     ELSE HandleRun

\* the insert without status: the column default 'pending'
RunPayload_NoStatus(c, tokens, latency, cost) ==
  RunRow(nextRun, c.prompt, c.model, tokens, latency, Decimal6(cost),
         "pending", c.user)

\* .insert({prompt_id, model, response, tokens_used, latency_ms, cost_usd,
\*          status: 'completed', user_id})
RunPayload(c, tokens, latency, cost) ==
  RunRow(nextRun, c.prompt, c.model, tokens, latency, Decimal6(cost),
         "completed", c.user)

\* setResult({response, latency, tokens, cost})
RunResult(tokens, latency, cost) ==
  [latency |-> latency, tokens |-> tokens, cost |-> cost]

\* handleRun from the end of its delay: the numbers, the insert, the outcome
HandleRunResume(i, d, net) ==
  /\ inv[i].pc = "delay"
  /\ inv' = [inv EXCEPT ![i] = IdleInv]
  /\ UNCHANGED <<user, page, loads, analyticsVars, promptsVars, dashVars,
                 run_prompts, selectedPrompt, selectedModel>>
  /\ LET c == inv[i]
           latency == Latency(DelayMs(d[2]), d[3])
           tokens == Tokens(d[1])
           cost == CostE8(tokens, c.model)
           row == RunPayload(c, tokens, latency, cost)
           ok == net /\ InsertRunOK(user, row)
       IN /\ ok => nextRun <= MaxRuns
          /\ IF ok
             THEN /\ InsertRun(user, row)
                  /\ result' = IF c.att THEN RunResult(tokens, latency, cost) ELSE result
                  /\ Out("handleRun.success", "Prompt executed successfully")
             ELSE /\ NoStatement
                  /\ UNCHANGED result
                  /\ Out("handleRun.failed", "Failed to run prompt")
          /\ running' = IF c.att THEN FALSE ELSE running

\* ------------------------------------------------- Prompts page
\* Prompts.loadPrompts resumes with the answer to its query
PromptsLoadPrompts(u) ==
  /\ page = "prompts" /\ loads[u] > 0
  /\ loads' = EndLoad(loads, u)
  /\ UNCHANGED storeVars
  /\ \E ok \in BOOLEAN :
       IF ok
       THEN LET data == Select("prompts", prompts, u, u) IN
            /\ prompts_list' = data
            /\ audit' = Effects("select", "prompts", data, u)
            /\ Out("Prompts.loadPrompts.ok", NoToast)
       ELSE /\ UNCHANGED prompts_list
            /\ audit' = {}
            /\ Out("Prompts.loadPrompts.error", "Failed to load prompts")
  /\ prompts_loading' = FALSE
  /\ UNCHANGED <<user, page, analyticsVars, dashVars, runVars, inv>>

\* .insert({title, content, model, temperature, user_id: user.id})
PromptPayload == PromptRow(nextPrompt, user, NULL)

\* the form of the New Prompt dialog is submitted
HandleCreatePrompt ==
  /\ page = "prompts"
  /\ UNCHANGED <<user, page, prompts_list, prompts_loading,
                 analyticsVars, dashVars, runVars, inv>>
  /\ IF user = NoUser
     THEN /\ NoStatement
          /\ Out("handleCreatePrompt.nouser", NoToast)
          /\ UNCHANGED loads
     ELSE \E net \in BOOLEAN :
          LET ok == net /\ InsertPromptOK(user, PromptPayload) IN
          /\ ok => nextPrompt <= MaxPrompts
          /\ IF ok
             THEN /\ InsertPrompt(user, PromptPayload)
                  /\ loads' = StartLoad(loads, user)
                  /\ Out("handleCreatePrompt.success", "Prompt created successfully")
             ELSE /\ NoStatement
                  /\ UNCHANGED loads
                  /\ Out("handleCreatePrompt.failed", "Failed to create prompt")

\* the trash button of a prompt card: .delete().eq('id', id)
HandleDeletePrompt(id) ==
  /\ page = "prompts" /\ ~prompts_loading /\ id \in Ids(prompts_list)
  /\ UNCHANGED <<user, page, prompts_list, prompts_loading,
                 analyticsVars, dashVars, runVars, inv>>
  /\ \E net \in BOOLEAN :
       IF net
       THEN /\ DeletePrompt(user, id)
            /\ loads' = StartLoad(loads, user)
            /\ Out("handleDeletePrompt.success", "Prompt deleted")
       ELSE /\ NoStatement
            /\ UNCHANGED loads
            /\ Out("handleDeletePrompt.failed", "Failed to delete prompt")

\* ------------------------------------------------- Analytics page
\* run.cost_usd || 0, run.latency_ms || 0
OrZero(x) == IF x = NULL THEN 0 ELSE x

RECURSIVE SumCost(_)
SumCost(rs) ==
  IF rs = {} THEN 0
  ELSE LET r == CHOOSE x \in rs : TRUE IN OrZero(r.cost_usd) + SumCost(rs \ {r})

RECURSIVE SumLatency(_)
SumLatency(rs) ==
  IF rs = {} THEN 0
  ELSE LET r == CHOOSE x \in rs : TRUE IN OrZero(r.latency_ms) + SumLatency(rs \ {r})

\* Math.floor(n / d)
RoundDiv_Floor(n, d) == n \div d

\* Math.round(n / d) for n >= 0, d > 0
RoundDiv(n, d) == (2 * n + d) \div (2 * d)

\* a value that is not a number: NaN, or the string that + builds from a
\* function and 1
NotANumber == -2

\* the property names that the accumulator {} inherits from Object.prototype,
\* among the model identifiers of the rows
ObjectPrototypeKeys == {"constructor"}

\* acc[run.model] = (acc[run.model] || 0) + 1 over the rows, read at key m:
\* an inherited property is a function, truthy, and + 1 makes a string of it
ModelCount(rs, m) ==
  IF m \in ObjectPrototypeKeys THEN NotANumber
  ELSE Cardinality({r \in rs : r.model = m})

\* (count / runs.length) * 100, kept as the fraction <<numerator, denominator>>
Percentage(count, len) ==
  IF count = NotANumber THEN <<NotANumber, NotANumber>> ELSE <<count * 100, len>>

\* Object.entries(modelCounts).map(([model, count]) => ({model, count, percentage}))
ModelBreakdown(rs) ==
  {[model |-> m, count |-> ModelCount(rs, m),
    percentage |-> Percentage(ModelCount(rs, m), Cardinality(rs))]
   : m \in {r.model : r \in rs}}

\* runs.filter(r => r.status !== 'pending')
Completed_NotPending(rs) == {r \in rs : r.status # "pending"}

\* runs.filter(r => r.status === 'completed')
Completed(rs) == {r \in rs : r.status = "completed"}

\* the argument of setStats for a non-empty runs
ComputeStats(rs) ==
  [totalRuns |-> Cardinality(rs),
   totalCost |-> SumCost(rs),
   avgLatency |-> RoundDiv(SumLatency(rs), Cardinality(rs)),
   successRate |-> RoundDiv(100 * Cardinality(Completed(rs)), Cardinality(rs)),
   modelBreakdown |-> ModelBreakdown(rs)]

\* a catch block that resets the stats
StatsAfterError_Reset(old) == ZeroStats

\* catch (error) { console.error(...) }: stats is not touched
StatsAfterError(old) == old

\* what loadAnalytics does to stats for the rows it fetched
StatsAfterLoad(old, rs) == IF rs = {} THEN old ELSE ComputeStats(rs)

\* loadAnalytics resumes with the answer to its query
LoadAnalytics(u) ==
  /\ page = "analytics" /\ loads[u] > 0
  /\ loads' = EndLoad(loads, u)
  /\ UNCHANGED storeVars
  /\ \E ok \in BOOLEAN :
       IF ok
       THEN LET data == Select("runs", runs, u, u) IN
            /\ analytics_stats' = StatsAfterLoad(analytics_stats, data)
            /\ audit' = Effects("select", "runs", data, u)
            /\ Out(IF data = {} THEN "loadAnalytics.empty" ELSE "loadAnalytics.ok", NoToast)
       ELSE /\ analytics_stats' = StatsAfterError(analytics_stats)
            /\ audit' = {}
            /\ Out("loadAnalytics.error", NoToast)
  /\ analytics_loading' = FALSE
  /\ UNCHANGED <<user, page, promptsVars, dashVars, runVars, inv>>

\* loading ? spinner : stats.totalRuns > 0 ? metric cards : "No analytics yet"
AnalyticsView ==
  IF analytics_loading THEN "spinner"
  ELSE IF analytics_stats.totalRuns > 0 THEN "cards" ELSE "empty"

\* ------------------------------------------------- Dashboard page
RecentLimit == 5

\* .order('created_at', {ascending: false}).limit(5): keys grow with time
Recent(rs) == {r \in rs : Cardinality({q \in rs : q.id > r.id}) < RecentLimit}

\* loadStats resumes with the answers of Promise.all; an answer with an
\* error has count and data null, and nothing is thrown
LoadStats(u) ==
  /\ page = "dashboard" /\ loads[u] > 0
  /\ loads' = EndLoad(loads, u)
  /\ UNCHANGED storeVars
  /\ \E okPrompts \in BOOLEAN, okRuns \in BOOLEAN :
       LET ps == IF okPrompts THEN Select("prompts", prompts, u, u) ELSE {}
           data == IF okRuns THEN Recent(Select("runs", runs, u, u)) ELSE {}
       IN /\ dashboard_stats' = [totalPrompts |-> Cardinality(ps),
                                 totalRuns |-> Cardinality(data),
                                 recentRuns |-> data]
          /\ audit' = Effects("select", "prompts", ps, u) \cup
                      Effects("select", "runs", data, u)
          /\ Out(IF okPrompts /\ okRuns THEN "loadStats.ok" ELSE "loadStats.error", NoToast)
  /\ dashboard_loading' = FALSE
  /\ UNCHANGED <<user, page, analyticsVars, promptsVars, runVars, inv>>

\* ------------------------------------------------- store API, any client
StoreInsertProject(uid, owner) ==
  /\ nextProject <= MaxProjects
  /\ LET row == ProjectRow(nextProject, owner) IN
     IF InsertProjectOK(uid, row)
     THEN InsertProject(uid, row) /\ Out("store.insertProject", NoToast)
     ELSE NoStatement /\ Out("store.insertProject.denied", NoToast)
  /\ UNCHANGED uiVars

StoreDeleteProject(uid, id) ==
  /\ DeleteProject(uid, id)
  /\ Out("store.deleteProject", NoToast)
  /\ UNCHANGED uiVars

StoreInsertPrompt(uid, owner, project) ==
  /\ nextPrompt <= MaxPrompts
  /\ LET row == PromptRow(nextPrompt, owner, project) IN
     IF InsertPromptOK(uid, row)
     THEN InsertPrompt(uid, row) /\ Out("store.insertPrompt", NoToast)
     ELSE NoStatement /\ Out("store.insertPrompt.denied", NoToast)
  /\ UNCHANGED uiVars

\* UPDATE prompts SET user_id = owner, project_id = project WHERE id = ...
\* (a policy without WITH CHECK applies its USING to the new row as well)
StoreUpdatePrompt(uid, id, owner, project) ==
  /\ LET old == Visible("prompts", "update", uid, {p \in prompts : p.id = id})
         new == {PromptRow(p.id, owner, project) : p \in old}
     IN IF (\A n \in new : OwnsRow(uid, n)) /\ ProjectRefOK(project)
        THEN /\ prompts' = (prompts \ old) \cup new
             /\ audit' = Effects("update", "prompts", old, uid)
             /\ Out("store.updatePrompt", NoToast)
             /\ UNCHANGED <<projects, runs, nextProject, nextPrompt, nextRun, authVars>>
        ELSE NoStatement /\ Out("store.updatePrompt.denied", NoToast)
  /\ UNCHANGED uiVars

StoreDeletePrompt(uid, id) ==
  /\ DeletePrompt(uid, id)
  /\ Out("store.deletePrompt", NoToast)
  /\ UNCHANGED uiVars

\* INSERT INTO runs (prompt_id, model, user_id): the other columns default
StoreInsertRun(uid, owner, prompt) ==
  /\ nextRun <= MaxRuns
  /\ LET row == DefaultRunRow(nextRun, prompt, owner) IN
     IF InsertRunOK(uid, row)
     THEN InsertRun(uid, row) /\ Out("store.insertRun", NoToast)
     ELSE NoStatement /\ Out("store.insertRun.denied", NoToast)
  /\ UNCHANGED uiVars

\* UPDATE runs SET status = ... WHERE id = ...: runs has no UPDATE policy
StoreUpdateRun(uid, id, status) ==
  /\ LET old == Visible("runs", "update", uid, {r \in runs : r.id = id})
         new == {[r EXCEPT !.status = status] : r \in old}
     IN /\ runs' = (runs \ old) \cup new
        /\ audit' = Effects("update", "runs", old, uid)
  /\ Out("store.updateRun", NoToast)
  /\ UNCHANGED <<projects, prompts, nextProject, nextPrompt, nextRun, authVars>>
  /\ UNCHANGED uiVars

\* DELETE FROM runs WHERE id = ...: runs has no DELETE policy
StoreDeleteRun(uid, id) ==
  /\ LET old == Visible("runs", "delete", uid, {r \in runs : r.id = id})
     IN /\ runs' = runs \ old
        /\ audit' = Effects("delete", "runs", old, uid)
  /\ Out("store.deleteRun", NoToast)
  /\ UNCHANGED <<projects, prompts, nextProject, nextPrompt, nextRun, authVars>>
  /\ UNCHANGED uiVars

\* SELECT * FROM <table>
StoreSelect(uid, table) ==
  /\ LET rows == IF table = "projects" THEN projects
                 ELSE IF table = "prompts" THEN prompts ELSE runs
     IN audit' = Effects("select", table, Visible(table, "select", uid, rows), uid)
  /\ Out("store.select", NoToast)
  /\ UNCHANGED <<storeVars, uiVars>>

\* ------------------------------------------------- users and profiles
\* values of profiles.full_name
ProfileNames == {NoName, "Ada", "Bea"}

ProfileEffects(op, rows, uid) ==
  {[op |-> op, table |-> "profiles", id |-> r.id, owner |-> r.id, actor |-> uid]
   : r \in rows}

\* id UUID PRIMARY KEY, with no check of the key
ProfileKeyFree_None(id) == TRUE

\* id UUID PRIMARY KEY: no second row with the key
ProfileKeyFree(id) == id \notin Ids(profiles)

\* id REFERENCES auth.users(id)
ProfileRefOK(id) == id \in auth_users

\* INSERT INTO auth.users, as signup does; the trigger on_auth_user_created
\* runs handle_new_user in the same transaction, as its definer: the profile
\* is inserted whatever the policies, and a failed insert aborts the signup
SignUp(u, name) ==
  /\ u \notin auth_users
  /\ IF ProfileKeyFree(u)
     THEN /\ auth_users' = auth_users \cup {u}
          /\ profiles' = profiles \cup {ProfileRow(u, name)}
          /\ audit' = ProfileEffects("insert", {ProfileRow(u, name)}, u)
          /\ Out("auth.signUp", NoToast)
     ELSE /\ UNCHANGED authVars
          /\ audit' = {}
          /\ Out("auth.signUp.failed", NoToast)
  /\ UNCHANGED <<projects, prompts, runs, nextProject, nextPrompt, nextRun, uiVars>>

\* DELETE FROM auth.users WHERE id = u: profiles.id is ON DELETE CASCADE
DeleteUser(u) ==
  /\ u \in auth_users
  /\ auth_users' = auth_users \ {u}
  /\ profiles' = {p \in profiles : p.id # u}
  /\ audit' = ProfileEffects("delete", {p \in profiles : p.id = u}, u)
  /\ Out("auth.deleteUser", NoToast)
  /\ UNCHANGED <<projects, prompts, runs, nextProject, nextPrompt, nextRun, uiVars>>

\* INSERT INTO profiles (id, full_name) by a client of the store: the policy
\* "Users can insert their own profile", then the key and the reference
StoreInsertProfile(uid, id, name) ==
  /\ IF ~(uid # NoUser /\ uid = id)
     THEN /\ UNCHANGED authVars /\ audit' = {}
          /\ Out("store.insertProfile.denied", NoToast)
     ELSE IF ~(ProfileKeyFree(id) /\ ProfileRefOK(id))
     THEN /\ UNCHANGED authVars /\ audit' = {}
          /\ Out("store.insertProfile.conflict", NoToast)
     ELSE /\ profiles' = profiles \cup {ProfileRow(id, name)}
          /\ audit' = ProfileEffects("insert", {ProfileRow(id, name)}, uid)
          /\ Out("store.insertProfile", NoToast)
          /\ UNCHANGED auth_users
  /\ UNCHANGED <<projects, prompts, runs, nextProject, nextPrompt, nextRun, uiVars>>

\* UPDATE profiles SET id = newid, full_name = name WHERE id = ...: the policy
\* "Users can update their own profile" has no WITH CHECK, so its USING is
\* applied to the new row as well
StoreUpdateProfile(uid, id, newid, name) ==
  /\ LET old == {r \in profiles : r.id = id /\ uid # NoUser /\ uid = r.id}
         new == {ProfileRow(newid, name) : r \in old}
         rest == profiles \ old
     IN IF old # {} /\ uid = newid /\ newid \notin Ids(rest) /\ ProfileRefOK(newid)
        THEN /\ profiles' = rest \cup new
             /\ audit' = ProfileEffects("update", old, uid)
             /\ Out("store.updateProfile", NoToast)
        ELSE /\ UNCHANGED profiles /\ audit' = {}
             /\ Out("store.updateProfile.none", NoToast)
  /\ UNCHANGED <<auth_users, projects, prompts, runs, nextProject, nextPrompt,
                 nextRun, uiVars>>

\* DELETE FROM profiles WHERE id = ...: profiles has no DELETE policy
StoreDeleteProfile(uid, id) ==
  /\ UNCHANGED authVars /\ audit' = {}
  /\ Out("store.deleteProfile.none", NoToast)
  /\ UNCHANGED <<projects, prompts, runs, nextProject, nextPrompt, nextRun, uiVars>>

\* ------------------------------------------------- specifications
\* the record store under any sequence of statements of its clients
StoreNext ==
  \/ \E uid \in Principals, owner \in Users : StoreInsertProject(uid, owner)
  \/ \E uid \in Principals, id \in ProjectIds : StoreDeleteProject(uid, id)
  \/ \E uid \in Principals, owner \in Users, j \in ProjectIds \cup {NULL} :
        StoreInsertPrompt(uid, owner, j)
  \/ \E uid \in Principals, id \in PromptIds, owner \in Users, j \in ProjectIds \cup {NULL} :
        StoreUpdatePrompt(uid, id, owner, j)
  \/ \E uid \in Principals, id \in PromptIds : StoreDeletePrompt(uid, id)
  \/ \E uid \in Principals, owner \in Users, p \in PromptIds \cup {NULL} :
        StoreInsertRun(uid, owner, p)
  \/ \E uid \in Principals, id \in RunIds : StoreUpdateRun(uid, id, "completed")
  \/ \E uid \in Principals, id \in RunIds : StoreDeleteRun(uid, id)
  \/ \E uid \in Principals, t \in {"projects", "prompts", "runs"} : StoreSelect(uid, t)

SpecStore == Init /\ [][StoreNext]_vars

\* the pages that write to the store: Prompts and Run, one model, one draw
WriteNext ==
  \/ \E u \in Principals : AuthChange(u)
  \/ \E p \in {"prompts", "run"} : Navigate(p)
  \/ \E u \in Users : PromptsLoadPrompts(u)
  \/ HandleCreatePrompt
  \/ \E id \in PromptIds : HandleDeletePrompt(id)
  \/ \E u \in Users : RunLoadPrompts(u)
  \/ \E id \in PromptIds : SelectPrompt(id)
  \/ ClickRun
  \/ \E i \in 1..MaxInv, d \in UiDraws, net \in BOOLEAN : HandleRunResume(i, d, net)

SpecWrite == Init /\ [][WriteNext]_vars

\* the Run page over a store that holds one prompt of user A
InitRun ==
  /\ projects = {} /\ runs = {}
  /\ prompts = {PromptRow(1, "A", NULL)}
  /\ nextProject = 1 /\ nextPrompt = 2 /\ nextRun = 1
  /\ SignedUp
  /\ last = "init" /\ note = NoToast /\ audit = {}
  /\ user = NoUser /\ page = "run" /\ loads = NoLoads
  /\ analytics_stats = ZeroStats /\ analytics_loading = TRUE
  /\ prompts_list = {} /\ prompts_loading = TRUE
  /\ dashboard_stats = ZeroDashboard /\ dashboard_loading = TRUE
  /\ run_prompts = {} /\ selectedPrompt = NoSelection
  /\ selectedModel = "gpt-4" /\ running = FALSE /\ result = NoResult
  /\ inv = [i \in 1..MaxInv |-> IdleInv]

RunNext ==
  \/ \E u \in Principals : AuthChange(u)
  \/ \E p \in {"dashboard", "run"} : Navigate(p)
  \/ \E u \in Users : RunLoadPrompts(u)
  \/ \E id \in {1} : SelectPrompt(id)
  \/ \E m \in ModelChoices : SelectModel(m)
  \/ ClickRun
  \/ \E i \in 1..MaxInv, d \in UiDraws, net \in BOOLEAN : HandleRunResume(i, d, net)

SpecRun == InitRun /\ [][RunNext]_vars

\* the Run component with handleRun called as a function, whatever the
\* state of its button
HandlerNext ==
  \/ \E u \in Principals : AuthChange(u)
  \/ \E u \in Users : RunLoadPrompts(u)
  \/ \E id \in {1} : SelectPrompt(id)
  \/ HandleRun
  \/ \E i \in 1..MaxInv, d \in UiDraws, net \in BOOLEAN : HandleRunResume(i, d, net)

SpecHandler == InitRun /\ [][HandlerNext]_vars

\* the pages that read the runs: Analytics and Dashboard, while clients of
\* the store insert runs
ReadNext ==
  \/ \E u \in Principals : AuthChange(u)
  \/ \E p \in {"analytics", "dashboard"} : Navigate(p)
  \/ \E u \in Users : LoadAnalytics(u)
  \/ \E u \in Users : LoadStats(u)
  \/ \E uid \in Users, owner \in Users : StoreInsertRun(uid, owner, NULL)

SpecRead == Init /\ [][ReadNext]_vars

\* the Run page of user A with A's prompt loaded and selected
InitSim ==
  /\ projects = {} /\ runs = {}
  /\ prompts = {PromptRow(1, "A", NULL)}
  /\ nextProject = 1 /\ nextPrompt = 2 /\ nextRun = 1
  /\ SignedUp
  /\ last = "Run.selectPrompt" /\ note = NoToast /\ audit = {}
  /\ user = "A" /\ page = "run" /\ loads = NoLoads
  /\ analytics_stats = ZeroStats /\ analytics_loading = TRUE
  /\ prompts_list = {} /\ prompts_loading = TRUE
  /\ dashboard_stats = ZeroDashboard /\ dashboard_loading = TRUE
  /\ run_prompts = prompts /\ selectedPrompt = 1
  /\ selectedModel = "gpt-4" /\ running = FALSE /\ result = NoResult
  /\ inv = [i \in 1..MaxInv |-> IdleInv]

\* executions of every model of MODELS under the draws SimDraws
SimNext ==
  \/ \E m \in ModelNames : SelectModel(m)
  \/ ClickRun
  \/ \E i \in 1..MaxInv, d \in SimDraws, net \in BOOLEAN : HandleRunResume(i, d, net)

SpecSim == InitSim /\ [][SimNext]_vars

\* the schema as the migration leaves it: no user has signed up
InitProfiles ==
  /\ projects = {} /\ prompts = {} /\ runs = {}
  /\ nextProject = 1 /\ nextPrompt = 1 /\ nextRun = 1
  /\ auth_users = {} /\ profiles = {}
  /\ last = "init" /\ note = NoToast /\ audit = {}
  /\ user = NoUser /\ page = "dashboard" /\ loads = NoLoads
  /\ analytics_stats = ZeroStats /\ analytics_loading = TRUE
  /\ prompts_list = {} /\ prompts_loading = TRUE
  /\ dashboard_stats = ZeroDashboard /\ dashboard_loading = TRUE
  /\ run_prompts = {} /\ selectedPrompt = NoSelection
  /\ selectedModel = "gpt-4" /\ running = FALSE /\ result = NoResult
  /\ inv = [i \in 1..MaxInv |-> IdleInv]

\* signups, deletions of users, and any statement on profiles by any client
ProfilesNext ==
  \/ \E u \in Users, n \in ProfileNames : SignUp(u, n)
  \/ \E u \in Users : DeleteUser(u)
  \/ \E uid \in Principals, id \in Users, n \in ProfileNames : StoreInsertProfile(uid, id, n)
  \/ \E uid \in Principals, id \in Users, newid \in Users, n \in ProfileNames :
        StoreUpdateProfile(uid, id, newid, n)
  \/ \E uid \in Principals, id \in Users : StoreDeleteProfile(uid, id)

SpecProfiles == InitProfiles /\ [][ProfilesNext]_vars

\* the three pages with a loading flag, while clients of the store insert
\* runs; the store answers every query that a loader has sent
LoadNext ==
  \/ \E u \in Principals : AuthChange(u)
  \/ \E p \in {"analytics", "dashboard", "prompts"} : Navigate(p)
  \/ \E u \in Users : LoadAnalytics(u)
  \/ \E u \in Users : LoadStats(u)
  \/ \E u \in Users : PromptsLoadPrompts(u)
  \/ \E uid \in Users, owner \in Users : StoreInsertRun(uid, owner, NULL)

SpecLoad ==
  /\ Init /\ [][LoadNext]_vars
  /\ WF_vars(\E u \in Users : LoadAnalytics(u))
  /\ WF_vars(\E u \in Users : LoadStats(u))
  /\ WF_vars(\E u \in Users : PromptsLoadPrompts(u))

\* the Dashboard mounted for user A over a runs table of rows of A and B
InitDash ==
  /\ projects = {} /\ prompts = {}
  /\ \E n \in 0..MaxDashRows : \E f \in [1..n -> Users] :
       /\ runs = {DefaultRunRow(i, NULL, f[i]) : i \in 1..n}
       /\ nextRun = n + 1
  /\ nextProject = 1 /\ nextPrompt = 1
  /\ SignedUp
  /\ last = "navigate" /\ note = NoToast /\ audit = {}
  /\ user = "A" /\ page = "dashboard" /\ loads = StartLoad(NoLoads, "A")
  /\ analytics_stats = ZeroStats /\ analytics_loading = TRUE
  /\ prompts_list = {} /\ prompts_loading = TRUE
  /\ dashboard_stats = ZeroDashboard /\ dashboard_loading = TRUE
  /\ run_prompts = {} /\ selectedPrompt = NoSelection
  /\ selectedModel = "gpt-4" /\ running = FALSE /\ result = NoResult
  /\ inv = [i \in 1..MaxInv |-> IdleInv]

\* the user goes between the Dashboard and the Analytics page
DashNext ==
  \/ \E p \in {"analytics", "dashboard"} : Navigate(p)
  \/ \E u \in Users : LoadStats(u)
  \/ \E u \in Users : LoadAnalytics(u)

SpecDash == InitDash /\ [][DashNext]_vars

\* the kinds of runs rows that loadAnalytics is given: a completed run of
\* handleRun, a row of column defaults, failed and completed rows of other
\* models, a row whose model text is a property name of Object.prototype
StatShapes ==
  {[model |-> "gpt-4", status |-> "completed", tokens |-> 100, latency |-> 2000, cost |-> 3000],
   [model |-> "gpt-4", status |-> "pending", tokens |-> NULL, latency |-> NULL, cost |-> NULL],
   [model |-> "gemini-pro", status |-> "failed", tokens |-> 499, latency |-> 3001, cost |-> 125],
   [model |-> "constructor", status |-> "completed", tokens |-> 400, latency |-> 2501, cost |-> 100]}

\* the Analytics page mounted for user A over a runs table of any such rows
InitStats ==
  /\ projects = {} /\ prompts = {}
  /\ \E n \in 0..MaxRows : \E f \in [1..n -> StatShapes] :
       /\ runs = {RunRow(i, NULL, f[i].model, f[i].tokens, f[i].latency,
                         f[i].cost, f[i].status, "A") : i \in 1..n}
       /\ nextRun = n + 1
  /\ nextProject = 1 /\ nextPrompt = 1
  /\ SignedUp
  /\ last = "navigate" /\ note = NoToast /\ audit = {}
  /\ user = "A" /\ page = "analytics" /\ loads = StartLoad(NoLoads, "A")
  /\ analytics_stats = ZeroStats /\ analytics_loading = TRUE
  /\ prompts_list = {} /\ prompts_loading = TRUE
  /\ dashboard_stats = ZeroDashboard /\ dashboard_loading = TRUE
  /\ run_prompts = {} /\ selectedPrompt = NoSelection
  /\ selectedModel = "gpt-4" /\ running = FALSE /\ result = NoResult
  /\ inv = [i \in 1..MaxInv |-> IdleInv]

StatsNext == \E u \in Users : LoadAnalytics(u)

SpecStats == InitStats /\ [][StatsNext]_vars

\* ------------------------------------------------- properties of the store

\* C2: every select, insert, update and delete that takes effect on a
\* projects, prompts or runs row, a cascaded delete included, is performed
\* by the principal whose identifier is the row's user_id.
C2_OnlyOwnerTouchesRow == \A e \in audit : e.actor = e.owner

\* no reference to a row that does not exist
NoDanglingReference ==
  /\ \A r \in runs : PromptRefOK(r.prompt_id)
  /\ \A p \in prompts : ProjectRefOK(p.project_id)

\* C10: a step that deletes a prompts row deletes every runs row that
\* references it, a step that deletes a projects row deletes every prompts
\* row that references it and the runs of those prompts, and afterwards no
\* row has a dangling reference.
C10_DeleteCascades ==
  [][ /\ \A p \in prompts : p.id \notin Ids(prompts') =>
           \A r \in runs : r.prompt_id = p.id => r.id \notin Ids(runs')
      /\ \A j \in projects : j.id \notin Ids(projects') =>
           \A p \in prompts : p.project_id = j.id =>
              /\ p.id \notin Ids(prompts')
              /\ \A r \in runs : r.prompt_id = p.id => r.id \notin Ids(runs')
      /\ NoDanglingReference' ]_vars

\* a project was deleted and took a prompt and that prompt's run with it
C10_Witness ==
  /\ last = "store.deleteProject"
  /\ \E e \in audit : e.op = "delete" /\ e.table = "projects"
  /\ \E e \in audit : e.op = "delete" /\ e.table = "prompts"
  /\ \E e \in audit : e.op = "delete" /\ e.table = "runs"

\* ------------------------------------------------- properties of handleRun
InFlight == {i \in 1..MaxInv : inv[i].pc = "delay"}

\* the steps that are a call of handleRun up to its first await
HandleRunCalled == {"handleRun.guard", "handleRun.notfound", "handleRun.start"}

\* slot i leaves its delay in this step: the call runs to its end
Resumes(i) == inv[i].pc = "delay" /\ inv'[i].pc = "idle"

\* C3: runs rows are created only by handleRun and are otherwise
\* append-only: no step of the pages updates or deletes a runs row.
C3_RunsAppendOnly ==
  [][ /\ \A r \in runs : r \in runs'
      /\ runs' # runs => \E i \in 1..MaxInv : Resumes(i) ]_vars

\* C3, amended: a runs row is created only by a handleRun call, under a new
\* key; no step changes a column of a runs row; a runs row is deleted only
\* in the step in which handleDeletePrompt deletes the prompt it references.
C3_RunsAppendOnlyButCascade ==
  [][ /\ \A r \in runs :
           \/ r \in runs'
           \/ /\ r.id \notin Ids(runs')
              /\ r.prompt_id \in Ids(prompts) \ Ids(prompts')
              /\ last' = "handleDeletePrompt.success"
      /\ \A r \in runs' \ runs :
           /\ r.id \notin Ids(runs)
           /\ \E i \in 1..MaxInv : Resumes(i) ]_vars

\* handleDeletePrompt deleted a prompt and the cascade deleted its run
C3_Witness ==
  /\ last = "handleDeletePrompt.success"
  /\ \E e \in audit : e.op = "delete" /\ e.table = "prompts"
  /\ \E e \in audit : e.op = "delete" /\ e.table = "runs"

\* C4: a handleRun call whose prompt resolves and whose insert succeeds
\* inserts exactly one runs row: status 'completed', the prompt, model and
\* user of the call (the user being the acting principal), the computed
\* tokens, latency and cost; result is set and success is reported only in
\* a step in which that row is inserted.
C4_OneCompletedRow ==
  [][ /\ last' = "handleRun.start" =>
           \E i \in 1..MaxInv :
              /\ inv[i].pc = "idle" /\ inv'[i].pc = "delay"
              /\ inv'[i].prompt = selectedPrompt
              /\ inv'[i].model = selectedModel
              /\ inv'[i].user = user
              /\ selectedPrompt \in Ids(run_prompts)
              /\ runs' = runs
      /\ \A i \in 1..MaxInv : Resumes(i) /\ runs' # runs =>
           \E r \in runs', d \in UiDraws :
              /\ r.id \notin Ids(runs) /\ runs' = runs \cup {r}
              /\ r.status = "completed"
              /\ r.prompt_id = inv[i].prompt
              /\ r.model = inv[i].model
              /\ r.user_id = inv[i].user /\ r.user_id = user
              /\ r.tokens_used = Tokens(d[1])
              /\ r.latency_ms = Latency(DelayMs(d[2]), d[3])
              /\ r.cost_usd = Decimal6(CostE8(r.tokens_used, r.model))
              /\ note' = "Prompt executed successfully"
              /\ inv[i].att =>
                   result' = [latency |-> r.latency_ms, tokens |-> r.tokens_used,
                              cost |-> CostE8(r.tokens_used, r.model)]
      /\ (result' # result /\ result' # NoResult) \/ note' = "Prompt executed successfully" =>
           Cardinality(runs') = Cardinality(runs) + 1 ]_vars

\* a call for model gemini-pro has inserted its row and shows its result
C4_Witness ==
  /\ last = "handleRun.success"
  /\ result # NoResult
  /\ \E r \in runs : /\ r.id = nextRun - 1 /\ r.model = "gemini-pro"
                     /\ r.status = "completed" /\ r.user_id = user
                     /\ r.tokens_used = result.tokens

\* C5: a handleRun call whose selected prompt is not in the loaded list
\* fails: the error toast is shown, no runs row is inserted, no call is
\* left in flight, and result is null.
C5_UnresolvedPromptFails ==
  [][ ( /\ last' \in HandleRunCalled
        /\ selectedPrompt # NoSelection /\ user # NoUser
        /\ selectedPrompt \notin Ids(run_prompts) ) =>
           /\ note' = "Failed to run prompt"
           /\ runs' = runs /\ nextRun' = nextRun
           /\ inv' = inv
           /\ result' = NoResult /\ ~running' ]_vars

\* handleRun was called with a selection that the reloaded list lacks
C5_Witness ==
  /\ last = "handleRun.notfound"
  /\ selectedPrompt # NoSelection /\ selectedPrompt \notin Ids(run_prompts)
  /\ note = "Failed to run prompt"

\* C6: when the insert of a handleRun call fails, no runs row is added, the
\* error toast is shown and not the success toast, and the result of the
\* component that made the call is null.
C6_FailedInsertShowsNoResult ==
  [][ \A i \in 1..MaxInv : Resumes(i) /\ runs' = runs =>
        /\ note' = "Failed to run prompt"
        /\ inv[i].att => result' = NoResult /\ ~running' ]_vars

\* the insert of the call of the mounted Run page has failed
C6_Witness ==
  /\ last = "handleRun.failed" /\ page = "run"
  /\ selectedPrompt # NoSelection /\ InFlight = {}
  /\ result = NoResult /\ ~running

\* C7: handleRun called with no prompt selected (or no user) shows its
\* toast and changes nothing else: no statement reaches the store, and
\* running, result, the runs table and the calls in flight are unchanged.
C7_GuardChangesNothing ==
  [][ ( /\ last' \in HandleRunCalled
        /\ selectedPrompt = NoSelection \/ user = NoUser ) =>
           /\ note' = "Please select a prompt"
           /\ audit' = {}
           /\ UNCHANGED <<storeVars, running, result, inv>> ]_vars

\* handleRun was called with no prompt selected
C7_Witness ==
  /\ last = "handleRun.guard" /\ selectedPrompt = NoSelection
  /\ note = "Please select a prompt"

\* C8: no guard suppresses a second handleRun call: a click on the Run
\* button is without effect only when no prompt is selected, never because
\* a call is in flight.
C8_NoReentrancyGuard ==
  last = "Run.click.disabled" => selectedPrompt = NoSelection

\* C8, amended: handleRun has no guard of its own, and every call whose
\* insert succeeds inserts its own runs row; but the Run button is disabled
\* while running is true, so a click during the delay of the mounted page's
\* call starts no second call, and two calls are in flight together only
\* when the page was remounted in between (at most one belongs to the
\* mounted page).
C8_ButtonGuardsReentry ==
  [][ /\ \A i \in 1..MaxInv : Resumes(i) /\ note' = "Prompt executed successfully" =>
           \E r \in runs' : r.id \notin Ids(runs) /\ runs' = runs \cup {r}
      /\ (page = "run" /\ running /\ last' = "Run.click.disabled") => inv' = inv
      /\ last' = "handleRun.start" => ~running /\ {i \in InFlight : inv[i].att} = {}
      /\ Cardinality({i \in 1..MaxInv : inv'[i].pc = "delay" /\ inv'[i].att}) <= 1 ]_vars

\* a call has inserted its row while the call of the remounted page, started
\* during the delay of the first, is in flight; an earlier row exists too
C8_Witness ==
  /\ last = "handleRun.success"
  /\ \E i \in InFlight : inv[i].att
  /\ Cardinality(runs) = 2

\* ------------------------------------------------- properties of the loaders

\* C1: whenever loadAnalytics completes having fetched no runs row, stats is
\* the zero stats (totalRuns 0, totalCost 0, avgLatency 0, successRate 0,
\* modelBreakdown empty) and the page shows its empty state, whatever was
\* loaded before in the same component.
C1_EmptyFetchShowsEmptyState ==
  last = "loadAnalytics.empty" =>
    analytics_stats = ZeroStats /\ AnalyticsView = "empty"

\* the steps in which a store operation of a handler has failed
FailureSteps ==
  {"loadAnalytics.error", "loadStats.error", "Run.loadPrompts.error",
   "Prompts.loadPrompts.error", "handleCreatePrompt.failed",
   "handleDeletePrompt.failed", "handleRun.failed"}

\* C9: every failure of a store operation is shown to the user as a toast,
\* and once the operation has finished the loading flag of a loader, or the
\* running flag of the page whose handleRun call failed, is false.
C9_FailuresNotifyAndReset ==
  /\ last \in FailureSteps => note # NoToast
  /\ last = "loadAnalytics.error" => ~analytics_loading
  /\ last = "loadStats.error" => ~dashboard_loading
  /\ last = "Prompts.loadPrompts.error" => ~prompts_loading
  /\ (last = "handleRun.failed" /\ {i \in InFlight : inv[i].att} = {}) => ~running


\* ------------------------------------------------- properties of the statistics
\* the rows that the load of the mounted Analytics page was given
Fetched == Select("runs", runs, user, user)

\* C11: after loadAnalytics has set the stats for a non-empty set R of
\* rows, successRate is an integer in 0..100 nearest to 100 * k / |R|,
\* where k counts the rows whose status is exactly 'completed'; pending and
\* failed rows count in |R| only.
C11_SuccessRateIsRoundedShare ==
  last = "loadAnalytics.ok" =>
    LET n == Cardinality(Fetched)
        k == Cardinality({r \in Fetched : r.status = "completed"})
        s == analytics_stats.successRate
    IN /\ s \in 0..100
       /\ 2 * s * n - n <= 200 * k
       /\ 200 * k <= 2 * s * n + n

\* a load over completed, pending and failed rows together
C11_Witness ==
  /\ last = "loadAnalytics.ok"
  /\ {r.status : r \in Fetched} = {"completed", "pending", "failed"}
  /\ analytics_stats.successRate \in 1..99

\* C12: after loadAnalytics has set the stats for the rows R, modelBreakdown
\* has exactly one entry for each model text of R, the count of an entry is
\* the number of rows of R with that model, and its percentage is
\* count / |R| * 100; so the counts add up to |R|.
C12_BreakdownCountsModels ==
  last = "loadAnalytics.ok" =>
    LET mb == analytics_stats.modelBreakdown
        n == Cardinality(Fetched)
    IN /\ {e.model : e \in mb} = {r.model : r \in Fetched}
       /\ Cardinality(mb) = Cardinality({r.model : r \in Fetched})
       /\ \A e \in mb :
            /\ e.count = Cardinality({r \in Fetched : r.model = e.model})
            /\ e.percentage = <<100 * e.count, n>>

\* C13: whenever loadAnalytics, called for user u, is answered without an
\* error, the totalRuns it leaves in stats is the number of runs rows of u,
\* the rows the query returned.
C13_TotalRunsIsFetchedCount ==
  [][\A u \in Users :
       (LoadAnalytics(u) /\ last' \in {"loadAnalytics.ok", "loadAnalytics.empty"})
         => analytics_stats'.totalRuns = Cardinality(Select("runs", runs, u, u))]_vars

\* the latencies of the rows added up, a NULL latency adding nothing
RECURSIVE LatencyTotal(_)
LatencyTotal(rs) ==
  IF rs = {} THEN 0
  ELSE LET r == CHOOSE x \in rs : TRUE
       IN (IF r.latency_ms = NULL THEN 0 ELSE r.latency_ms) + LatencyTotal(rs \ {r})

\* C14: after loadAnalytics has set the stats for a non-empty set R of
\* rows, avgLatency is an integer nearest to (sum of latency_ms over R, a
\* NULL latency counted as 0) / |R|; for an empty R nothing is divided and
\* avgLatency stays the number it was.
C14_AvgLatencyIsRoundedMean ==
  /\ last = "loadAnalytics.ok" =>
       LET n == Cardinality(Fetched)
           a == analytics_stats.avgLatency
       IN /\ 2 * a * n - n <= 2 * LatencyTotal(Fetched)
          /\ 2 * LatencyTotal(Fetched) <= 2 * a * n + n
  /\ last = "loadAnalytics.empty" => analytics_stats.avgLatency = 0

\* a load over rows with and without a latency whose mean is not a whole
\* number of milliseconds
C14_Witness ==
  /\ last = "loadAnalytics.ok"
  /\ \E r \in Fetched : r.latency_ms = NULL
  /\ \E r \in Fetched : r.latency_ms # NULL
  /\ analytics_stats.avgLatency * Cardinality(Fetched) # LatencyTotal(Fetched)

\* ------------------------------------------------- properties of the numbers
\* the row that the last step inserted
Inserted == {r \in runs : r.id = nextRun - 1}

\* C15: the cost recorded in a runs row is (tokens / 1000) * unit cost of
\* the row's model in MODELS: cost_usd, in micro-dollars, times 100 is
\* tokens_used times the unit cost in 1e-5 dollar.
C15_RecordedCostIsFormula ==
  \A r \in runs : r.cost_usd * 100 = r.tokens_used * ModelCost(r.model)

\* C16 as stated: an execution with model gemini-pro that draws 400 tokens
\* records and shows the cost 0.1 dollar.
C16_GeminiCostIsTenthOfDollar ==
  (last = "handleRun.success" /\ result.tokens = 400) =>
    \A r \in Inserted :
      r.model = "gemini-pro" => r.cost_usd = 100000 /\ result.cost = 10000000

\* C16: an execution with model gemini-pro that draws 400 tokens records
\* and shows the cost 0.0001 dollar, 400 / 1000 * 0.00025.
C16_GeminiCostIsHundredMicro ==
  (last = "handleRun.success" /\ result.tokens = 400) =>
    \A r \in Inserted :
      r.model = "gemini-pro" =>
        r.tokens_used = 400 /\ r.cost_usd = 100 /\ result.cost = 10000

\* a gemini-pro execution of 400 tokens has been recorded
C16_Witness ==
  /\ last = "handleRun.success" /\ result.tokens = 400
  /\ \E r \in Inserted : r.model = "gemini-pro"

\* C17: the latency_ms of every row that handleRun inserted is at least
\* 2000 and less than 4000, and its tokens_used is at least 100 and less
\* than 500.
C17_LatencyAndTokensInRange ==
  \A r \in runs :
    /\ r.latency_ms \in DelayBase..(DelayBase + DelaySpan - 1)
    /\ r.tokens_used \in TokenBase..(TokenBase + TokenSpan - 1)

\* ------------------------------------------------- properties of the profiles
\* C18: every user of auth.users has exactly one profiles row, from the
\* signup on, and every profiles row is the row of such a user; no insert
\* or update by a client makes a second row for a user.
C18_OneProfilePerUser ==
  /\ \A u \in auth_users : Cardinality({p \in profiles : p.id = u}) = 1
  /\ \A p \in profiles : p.id \in auth_users

\* a signed-up user has tried to insert a profile of their own, under the
\* insert policy, and has still one profile
C18_Witness ==
  /\ last = "store.insertProfile.conflict"
  /\ auth_users = Users
  /\ Cardinality(profiles) = Cardinality(Users)

\* ------------------------------------------------- properties of ownership
\* C19: every runs row with a prompt_id belongs to the user who owns the
\* prompts row it references, whatever the order of user changes, loads of
\* the prompt list, selections and runs.
C19_RunOwnerIsPromptOwner ==
  \A r \in runs :
    r.prompt_id # NULL =>
      \E p \in prompts : p.id = r.prompt_id /\ p.user_id = r.user_id

\* C20: a loadAnalytics whose query is answered with an error leaves stats
\* as it was and loading false, and changes nothing else; stats is set only
\* by loadAnalytics after a non-empty answer, all five fields at once (and by
\* the mount of the page, which starts it from its initial value).
C20_ErrorLeavesStats ==
  [][/\ (\E u \in Users : LoadAnalytics(u)) /\ last' = "loadAnalytics.error"
          => /\ analytics_stats' = analytics_stats
             /\ ~analytics_loading'
             /\ UNCHANGED <<storeVars, user, page, promptsVars, dashVars, runVars, inv>>
     /\ analytics_stats' # analytics_stats
          => \/ /\ last' = "loadAnalytics.ok"
                /\ \E u \in Users : /\ Select("runs", runs, u, u) # {}
                                    /\ analytics_stats' = ComputeStats(Select("runs", runs, u, u))
             \/ last' = "navigate" /\ analytics_stats' = ZeroStats]_vars

\* the query failed on a page that shows the stats of an earlier load
C20_Witness ==
  /\ last = "loadAnalytics.error"
  /\ analytics_stats.totalRuns > 0
  /\ ~analytics_loading

\* ------------------------------------------------- properties of the loaders
\* C21: a page that is mounted with its loading flag true comes to show its
\* loading flag false (or is left): every call of loadAnalytics, of
\* Prompts.loadPrompts and of loadStats ends with loading false, the call
\* that returns at once for want of a user included.
C21_LoadingEventuallyFalse ==
  /\ (page = "analytics" /\ analytics_loading)
        ~> (page # "analytics" \/ ~analytics_loading)
  /\ (page = "dashboard" /\ dashboard_loading)
        ~> (page # "dashboard" \/ ~dashboard_loading)
  /\ (page = "prompts" /\ prompts_loading)
        ~> (page # "prompts" \/ ~prompts_loading)

\* C22: the totalRuns that the Dashboard shows after loadStats is the
\* number of runs rows of the user, which is also the totalRuns that
\* loadAnalytics computes from the same table.
C22_DashboardCountsAllRuns ==
  last = "loadStats.ok" =>
    /\ dashboard_stats.totalRuns = Cardinality(Fetched)
    /\ dashboard_stats.totalRuns = StatsAfterLoad(ZeroStats, Fetched).totalRuns

====
